---- MODULE Spec2Model ----
(***************************************************************************)
(* Model of resources/lib/services/msl/msl_handler.py: the MSLHandler      *)
(* (session orchestrator), the chunked response parser and the payload     *)
(* decryptor.                                                              *)
(*                                                                         *)
(* Text is a sequence of tokens.  A token is a record with a field t:      *)
(*   [t |-> "a"]   any character that takes no part in the framing         *)
(*   [t |-> "}"]   the closing brace                                       *)
(*   [t |-> "g"]   the text  ,"signature":"<base64 chars>"  (the part of   *)
(*                 the signature pattern in front of its closing brace)    *)
(*   [t |-> "payload", ...]  the text  {"payload":"<base64 envelope>"      *)
(*                 of one payload chunk, without its closing brace         *)
(*   [t |-> "[" ], [t |-> "]"]  brackets of the assembled service answer   *)
(*   a document    a JSON value (see Docs)                                 *)
(***************************************************************************)
EXTENDS Integers, Sequences, FiniteSets, TLC

VARIABLES
    self,       \* the MSLHandler: crypto keys and the two context ids
    esn,        \* g.get_esn(): 0 when no ESN is available
    phase,      \* "new" before __init__, "ready" after it, "failed" if it raised
    last,       \* observation of the last operation of the handler
    good,       \* ids of the first viewable of the last successful load_manifest
    fresh,      \* the ESN did not change since session keys were last obtained
    message,    \* input of the parser run
    parsed,     \* result of the parser run
    chunks,     \* input of the decryptor run: the payload strings
    crypto,     \* input of the decryptor run: the key the crypto object holds
    decrypted,  \* result of the decryptor run
    threads     \* concurrent callers of one handler: position and locals of each

vars ==
    <<self, esn, phase, last, good, fresh, message, parsed, chunks, crypto, decrypted,
      threads>>

handlerVars == <<self, esn, phase, last, good, fresh>>
parserVars == <<message, parsed>>
decryptorVars == <<chunks, crypto, decrypted>>

(***************************************************************************)
(* Bounds                                                                  *)
(***************************************************************************)
MaxLen == 7        \* longest message given to the parser run
MaxChunks == 2     \* most chunks given to the decryptor run
NKeys == 2         \* session keys the service can negotiate: 1..NKeys
NIds == 2          \* context ids the service can hand out: 1..NIds
NEsn == 2          \* identities the add-on can run under: 1..NEsn

Keys == 1..NKeys
Ids == 1..NIds
Esns == 1..NEsn
NoEsn == 0         \* g.get_esn() returns nothing
NoKey == 0         \* crypto without negotiated session keys
Absent == -1       \* a field that is missing from a JSON object
EmptyStr == 0      \* the empty string ''

Tok(c) == [t |-> c]
Chars == {Tok("a"), Tok("g"), Tok("}")}

RECURSIVE SeqsUpTo(_, _)
SeqsUpTo(S, n) ==
    IF n = 0 THEN {<<>>}
    ELSE LET shorter == SeqsUpTo(S, n - 1)
         IN  shorter \cup {Append(s, x) : s \in {q \in shorter : Len(q) = n - 1}, x \in S}

(***************************************************************************)
(* Chunked Response Parser                                                 *)
(***************************************************************************)
IsDelimAt(m, i) == i + 1 <= Len(m) /\ m[i].t = "}" /\ m[i + 1].t = "}"

\* index of the first '}}' of m at or after position from, 0 if there is none
FindDelim(m, from) ==
    LET hits == {i \in from..Len(m) : IsDelimAt(m, i)}
    IN  IF hits = {} THEN 0 ELSE CHOOSE i \in hits : \A j \in hits : i <= j

IsSigAt(s, i) == i + 1 <= Len(s) /\ s[i].t = "g" /\ s[i + 1].t = "}"

FindSig(s) ==
    LET hits == {i \in 1..Len(s) : IsSigAt(s, i)}
    IN  IF hits = {} THEN 0 ELSE CHOOSE i \in hits : \A j \in hits : i <= j

\* re.split(',"signature":"[0-9A-Za-z=/+]+"}', s)
RECURSIVE ReSplit(_)
ReSplit(s) ==
    LET k == FindSig(s)
    IN  IF k = 0 THEN <<s>>
        ELSE <<SubSeq(s, 1, k - 1)>> \o ReSplit(SubSeq(s, k + 2, Len(s)))

\* message.split('}}')[0]
SplitPiece0(m) ==
    LET i == FindDelim(m, 1)
    IN  IF i = 0 THEN m ELSE SubSeq(m, 1, i - 1)

\* message.split('}}')[1]: the text between the first '}}' and the next one
SplitPiece1(m) ==
    LET i == FindDelim(m, 1)
        j == FindDelim(m, i + 2)
    IN  IF j = 0 THEN SubSeq(m, i + 2, Len(m)) ELSE SubSeq(m, i + 2, j - 1)

NoParse == [outcome |-> "none", header |-> <<>>, payloads |-> <<>>]

_parse_chunks(m) ==
    IF FindDelim(m, 1) = 0
    THEN [outcome |-> "IndexError", header |-> <<>>, payloads |-> <<>>]
    ELSE LET pieces == ReSplit(SplitPiece1(m))
         IN  [outcome |-> "return",
              header |-> SplitPiece0(m) \o <<Tok("}"), Tok("}")>>,
              payloads |-> [i \in 1..(Len(pieces) - 1) |-> Append(pieces[i], Tok("}"))]]

(***************************************************************************)
(* JSON documents.  A document stands for the JSON text of one value:      *)
(*   err   an object with an 'errordata' field                             *)
(*   hs    an object with 'headerdata'; key is the key material it         *)
(*         carries, NoKey when the key material is missing                 *)
(*   man   a manifest answer; pc / drm are playbackContextId and           *)
(*         drmContextId of result.viewables[0], Absent when missing        *)
(*   lic   a license answer with 'success' and result.licenses[0].data     *)
(*   obj   an object with none of these fields                             *)
(*   num   a JSON number                                                   *)
(***************************************************************************)
Blobs == {1}

Docs ==
    {[t |-> "err"], [t |-> "obj"], [t |-> "num"]}
    \cup {[t |-> "hs", key |-> k] : k \in Keys \cup {NoKey}}
    \cup {[t |-> "man", pc |-> p, drm |-> d] :
             p \in Ids \cup {Absent}, d \in Ids \cup {Absent}}
    \cup {[t |-> "lic", success |-> s, data |-> b] :
             s \in BOOLEAN, b \in Blobs \cup {Absent}}

DocKinds == {"err", "obj", "num", "hs", "man", "lic"}

(***************************************************************************)
(* Encodings.  base64 text and a gzip member are the encoded value wrapped *)
(* in a tag; decoding removes the tag and fails on anything else.          *)
(***************************************************************************)
B64(d) == [t |-> "b64", of |-> d]
Gzip(d) == <<[t |-> "gz", of |-> d]>>

\* base64.standard_b64decode
standard_b64decode(x) == x.of

IsGzip(b) == Len(b) = 1 /\ b[1].t = "gz"
\* zlib.decompress(b, 16 + zlib.MAX_WBITS)
decompress(b) == b[1].of

\* the text {"payload":"<base64 of the encryption envelope>" of one chunk whose
\* ciphertext was made under key k and whose plaintext envelope is
\* {"data": data, "compressionalgo": algo}
PayloadTok(k, algo, data) == [t |-> "payload", key |-> k, algo |-> algo, data |-> data]

\* json.JSONDecoder().decode(chunk) succeeds on {"payload":"..."}
IsChunkJson(chunk) == Len(chunk) = 2 /\ chunk[1].t = "payload" /\ chunk[2].t = "}"

(***************************************************************************)
(* Payload Decryptor                                                       *)
(***************************************************************************)
\* crypto.decrypt: fails without session keys or when the ciphertext was
\* not made under the session keys
CanDecrypt(c, k) == c # NoKey /\ c = k

\* the loop body without the GZIP branch: the data is base64-decoded only
DecodeChunk_never_inflating(chunk, c) ==
    IF ~IsChunkJson(chunk) THEN [outcome |-> "ValueError", data |-> <<>>]
    ELSE LET p == chunk[1] IN
         IF ~CanDecrypt(c, p.key) THEN [outcome |-> "DecryptionError", data |-> <<>>]
         ELSE [outcome |-> "ok", data |-> standard_b64decode(p.data)]

\* one pass of the loop body of _decrypt_chunks
DecodeChunk(chunk, c) ==
    IF ~IsChunkJson(chunk) THEN [outcome |-> "ValueError", data |-> <<>>]
    ELSE LET p == chunk[1] IN
         IF ~CanDecrypt(c, p.key) THEN [outcome |-> "DecryptionError", data |-> <<>>]
         ELSE IF p.algo = "GZIP"
              THEN IF IsGzip(standard_b64decode(p.data))
                   THEN [outcome |-> "ok", data |-> decompress(standard_b64decode(p.data))]
                   ELSE [outcome |-> "zlib.error", data |-> <<>>]
              ELSE [outcome |-> "ok", data |-> standard_b64decode(p.data)]

\* the loop with the new data put in front of the buffer
DecryptLoop_prepending(cs, c, i, buf) ==
    LET RECURSIVE Go(_, _)
        Go(j, b) ==
            IF j > Len(cs) THEN [outcome |-> "ok", buffer |-> b]
            ELSE LET r == DecodeChunk(cs[j], c)
                 IN  IF r.outcome # "ok" THEN [outcome |-> r.outcome, buffer |-> b]
                     ELSE Go(j + 1, r.data \o b)
    IN  Go(i, buf)

\* the loop of _decrypt_chunks from chunk i on, buf is decrypted_payload
RECURSIVE DecryptLoop(_, _, _, _)
DecryptLoop(cs, c, i, buf) ==
    IF i > Len(cs) THEN [outcome |-> "ok", buffer |-> buf]
    ELSE LET r == DecodeChunk(cs[i], c)
         IN  IF r.outcome # "ok" THEN [outcome |-> r.outcome, buffer |-> buf]
             ELSE DecryptLoop(cs, c, i + 1, buf \o r.data)

\* json.loads(decrypted_payload)[1]['payload']['data'], base64-decoded and
\* JSON-decoded: the buffer has to be the service envelope around one answer
IsEnvelope(buf) ==
    Len(buf) = 3 /\ buf[1].t = "[" /\ buf[3].t = "]" /\ buf[2].t \in DocKinds

NoValue == [t |-> "none"]
NoDecrypt == [outcome |-> "none", buffer |-> <<>>, value |-> NoValue]

_decrypt_chunks(cs, c) ==
    LET loop == DecryptLoop(cs, c, 1, <<>>)
    IN  IF loop.outcome # "ok"
        THEN [outcome |-> loop.outcome, buffer |-> loop.buffer, value |-> NoValue]
        ELSE IF ~IsEnvelope(loop.buffer)
             THEN [outcome |-> "ValueError", buffer |-> loop.buffer, value |-> NoValue]
             ELSE [outcome |-> "return", buffer |-> loop.buffer, value |-> loop.buffer[2]]

(***************************************************************************)
(* Responses of the service                                                *)
(***************************************************************************)
\* response.json() succeeds: the body is the text of one JSON value.  A lone
\* payload object, with or without its signature, is a JSON object too.
IsJson(body) ==
    \/ Len(body) = 1 /\ body[1].t \in DocKinds
    \/ IsChunkJson(body)
    \/ Len(body) = 3 /\ body[1].t = "payload" /\ body[2].t = "g" /\ body[3].t = "}"

\* response.json()
json(body) == IF Len(body) = 1 THEN body[1] ELSE [t |-> "obj"]

_raise_if_error(decoded_response) ==
    IF decoded_response.t = "num" THEN [outcome |-> "TypeError", value |-> NoValue]
    ELSE IF decoded_response.t = "err" THEN [outcome |-> "MSLError", value |-> NoValue]
    ELSE [outcome |-> "return", value |-> decoded_response]

\* a JSON decoder that hands the decoded body on without looking for errordata
_process_json_response_lenient(body) ==
    IF IsJson(body) THEN [outcome |-> "return", value |-> json(body)]
    ELSE [outcome |-> "MSLError", value |-> NoValue]

_process_json_response(body) ==
    IF IsJson(body) THEN _raise_if_error(json(body))
    ELSE [outcome |-> "MSLError", value |-> NoValue]

_process_chunked_response(body, c) ==
    IF IsJson(body) THEN _raise_if_error(json(body))
    ELSE LET response == _parse_chunks(body)
         IN  IF response.outcome # "return"
             THEN [outcome |-> response.outcome, value |-> NoValue]
             ELSE LET d == _decrypt_chunks(response.payloads, c)
                  IN  [outcome |-> d.outcome, value |-> d.value]

(***************************************************************************)
(* MSLHandler.  Each method is a function from the handler (and what the   *)
(* environment answers) to the handler after the call and what the caller  *)
(* sees: outcome is "return" or the exception raised.                      *)
(***************************************************************************)
NoReq == [t |-> "none"]

\* the handler as the class attributes leave it, with a request builder
\* holding key c
NewHandler(c) ==
    [crypto |-> c, last_playback_context |-> EmptyStr, last_drm_context |-> EmptyStr]

\* a POST without raise_for_status()
_post_unchecked(resp) == "return"

\* self._post: one POST, raise_for_status() raises on a failed request
_post(resp) == IF resp.ok THEN "return" ELSE "HTTPError"

\* crypto.parse_key_response(headerdata)
parse_key_response(s, headerdata) ==
    IF headerdata.key = NoKey
    THEN [self |-> s, outcome |-> "KeyExchangeError"]
    ELSE [self |-> [s EXCEPT !.crypto = headerdata.key], outcome |-> "return"]

\* a handshake that drops the session keys before it negotiates new ones
perform_key_handshake_discarding(s, e, resp) ==
    LET cleared == [s EXCEPT !.crypto = NoKey] IN
    IF e = NoEsn
    THEN [self |-> cleared, outcome |-> "return", posts |-> 0, decoded |-> NoValue]
    ELSE IF _post(resp) # "return"
    THEN [self |-> cleared, outcome |-> _post(resp), posts |-> 1, decoded |-> NoValue]
    ELSE LET response == _process_json_response(resp.body) IN
         IF response.outcome # "return"
         THEN [self |-> cleared, outcome |-> response.outcome, posts |-> 1,
               decoded |-> NoValue]
         ELSE IF response.value.t # "hs"
         THEN [self |-> cleared, outcome |-> "KeyError", posts |-> 1,
               decoded |-> response.value]
         ELSE LET k == parse_key_response(cleared, response.value)
              IN  [self |-> k.self, outcome |-> k.outcome, posts |-> 1,
                   decoded |-> response.value]

\* a handshake that does not look at the ESN before it sends its request
perform_key_handshake_unguarded(s, e, resp) ==
    IF _post(resp) # "return"
    THEN [self |-> s, outcome |-> _post(resp), posts |-> 1, decoded |-> NoValue]
    ELSE LET response == _process_json_response(resp.body) IN
         IF response.outcome # "return"
         THEN [self |-> s, outcome |-> response.outcome, posts |-> 1, decoded |-> NoValue]
         ELSE IF response.value.t # "hs"
         THEN [self |-> s, outcome |-> "KeyError", posts |-> 1, decoded |-> response.value]
         ELSE LET k == parse_key_response(s, response.value)
              IN  [self |-> k.self, outcome |-> k.outcome, posts |-> 1,
                   decoded |-> response.value]

perform_key_handshake(s, e, resp) ==
    IF e = NoEsn
    THEN [self |-> s, outcome |-> "return", posts |-> 0, decoded |-> NoValue]
    ELSE IF _post(resp) # "return"
    THEN [self |-> s, outcome |-> _post(resp), posts |-> 1, decoded |-> NoValue]
    ELSE LET response == _process_json_response(resp.body) IN
         IF response.outcome # "return"
         THEN [self |-> s, outcome |-> response.outcome, posts |-> 1, decoded |-> NoValue]
         ELSE IF response.value.t # "hs"
         THEN [self |-> s, outcome |-> "KeyError", posts |-> 1, decoded |-> response.value]
         ELSE LET k == parse_key_response(s, response.value)
              IN  [self |-> k.self, outcome |-> k.outcome, posts |-> 1,
                   decoded |-> response.value]

\* what common.load_file('msl_data.json') finds on disk
MslData ==
    {[t |-> "absent"], [t |-> "garbage"], [t |-> "rejected"]}
    \cup {[t |-> "keys", key |-> k] : k \in Keys}

\* json.loads(common.load_file(...)) and MSLRequestBuilder(msl_data) both
\* go through: the file holds session keys the request builder accepts
LoadsMslData(msl_data) == msl_data.t = "keys"

\* a constructor whose except clause also swallows the handshake's errors
__init__swallowing(msl_data, e, resp) ==
    IF LoadsMslData(msl_data)
    THEN [self |-> NewHandler(msl_data.key), outcome |-> "return", posts |-> 0,
          hs |-> 0, decoded |-> NoValue]
    ELSE LET h == perform_key_handshake(NewHandler(NoKey), e, resp)
         IN  [self |-> h.self, outcome |-> "return", posts |-> h.posts,
              hs |-> 1, decoded |-> h.decoded]

\* a constructor that handshakes whether or not the stored keys were loaded
__init__rehandshaking(msl_data, e, resp) ==
    LET s0 == IF LoadsMslData(msl_data) THEN NewHandler(msl_data.key)
              ELSE NewHandler(NoKey)
        h == perform_key_handshake(s0, e, resp)
    IN  [self |-> h.self, outcome |-> h.outcome, posts |-> h.posts,
         hs |-> 1, decoded |-> h.decoded]

__init__(msl_data, e, resp) ==
    IF LoadsMslData(msl_data)
    THEN [self |-> NewHandler(msl_data.key), outcome |-> "return", posts |-> 0,
          hs |-> 0, decoded |-> NoValue]
    ELSE LET h == perform_key_handshake(NewHandler(NoKey), e, resp)
         IN  [self |-> h.self, outcome |-> h.outcome, posts |-> h.posts,
              hs |-> 1, decoded |-> h.decoded]

\* request_builder.msl_request(data): encrypts under the session keys
msl_request(s) == IF s.crypto = NoKey THEN "SessionNotEstablishedError" ELSE "return"

\* the subscript chain manifest['result']['viewables'][0] and the like on a
\* decoded value d that is not of kind t
SubscriptError(d) == IF d.t = "num" THEN "TypeError" ELSE "KeyError"

__tranform_to_dash(s, manifest, converts) ==
    IF manifest.t # "man"
    THEN [self |-> s, outcome |-> SubscriptError(manifest), value |-> NoValue]
    ELSE IF manifest.pc = Absent
    THEN [self |-> s, outcome |-> "KeyError", value |-> NoValue]
    ELSE LET s1 == [s EXCEPT !.last_playback_context = manifest.pc] IN
         IF manifest.drm = Absent
         THEN [self |-> s1, outcome |-> "KeyError", value |-> NoValue]
         ELSE LET s2 == [s1 EXCEPT !.last_drm_context = manifest.drm] IN
              IF ~converts
              THEN [self |-> s2, outcome |-> "ConvertError", value |-> NoValue]
              ELSE [self |-> s2, outcome |-> "return",
                    value |-> [t |-> "dash", pc |-> manifest.pc, drm |-> manifest.drm]]

\* error handling that drops the session keys when a response fails to decrypt
Raise_invalidating(s, outcome, posts, sent) ==
    [self |-> IF outcome = "DecryptionError" THEN [s EXCEPT !.crypto = NoKey] ELSE s,
     outcome |-> outcome, value |-> NoValue, posts |-> posts,
     sent |-> sent, decoded |-> NoValue]

\* an exception leaves load_manifest or get_license: nothing catches it and
\* nothing is done to the handler on the way out
Raise(s, outcome, posts, sent) ==
    [self |-> s, outcome |-> outcome, value |-> NoValue, posts |-> posts,
     sent |-> sent, decoded |-> NoValue]

load_manifest(s, viewable_id, resp, converts) ==
    LET req == [t |-> "manifest", viewable |-> viewable_id, key |-> s.crypto] IN
    IF msl_request(s) # "return" THEN Raise(s, msl_request(s), 0, NoReq)
    ELSE IF _post(resp) # "return" THEN Raise(s, _post(resp), 1, req)
    ELSE LET manifest == _process_chunked_response(resp.body, s.crypto) IN
         IF manifest.outcome # "return" THEN Raise(s, manifest.outcome, 1, req)
         ELSE LET d == __tranform_to_dash(s, manifest.value, converts)
              IN  [self |-> d.self, outcome |-> d.outcome, value |-> d.value,
                   posts |-> 1, sent |-> req, decoded |-> manifest.value]

\* get_license without the test of 'success'
LicenseOf_unchecked(response) ==
    IF response.t # "lic" THEN [outcome |-> SubscriptError(response), value |-> NoValue]
    ELSE IF response.data = Absent THEN [outcome |-> "KeyError", value |-> NoValue]
    ELSE [outcome |-> "return", value |-> [t |-> "blob", data |-> response.data]]

\* the tail of get_license: from the decoded response to what is returned
LicenseOf(response) ==
    IF response.t # "lic" THEN [outcome |-> SubscriptError(response), value |-> NoValue]
    ELSE IF ~response.success THEN [outcome |-> "LicenseError", value |-> NoValue]
    ELSE IF response.data = Absent THEN [outcome |-> "KeyError", value |-> NoValue]
    ELSE [outcome |-> "return", value |-> [t |-> "blob", data |-> response.data]]

\* a get_license that uses the playback context up: the ids are cleared once
\* the request is built
get_license_consuming(s, challenge, sid, resp) ==
    LET req == [t |-> "license", pc |-> s.last_playback_context,
                drm |-> s.last_drm_context, challenge |-> challenge, sid |-> sid,
                key |-> s.crypto]
        s0 == [s EXCEPT !.last_playback_context = EmptyStr,
                        !.last_drm_context = EmptyStr] IN
    IF msl_request(s) # "return" THEN Raise(s, msl_request(s), 0, NoReq)
    ELSE IF _post(resp) # "return" THEN Raise(s0, _post(resp), 1, req)
    ELSE LET response == _process_chunked_response(resp.body, s.crypto) IN
         IF response.outcome # "return" THEN Raise(s0, response.outcome, 1, req)
         ELSE LET l == LicenseOf(response.value)
              IN  [self |-> s0, outcome |-> l.outcome, value |-> l.value,
                   posts |-> 1, sent |-> req, decoded |-> response.value]

get_license(s, challenge, sid, resp) ==
    LET req == [t |-> "license", pc |-> s.last_playback_context,
                drm |-> s.last_drm_context, challenge |-> challenge, sid |-> sid,
                key |-> s.crypto] IN
    IF msl_request(s) # "return" THEN Raise(s, msl_request(s), 0, NoReq)
    ELSE IF _post(resp) # "return" THEN Raise(s, _post(resp), 1, req)
    ELSE LET response == _process_chunked_response(resp.body, s.crypto) IN
         IF response.outcome # "return" THEN Raise(s, response.outcome, 1, req)
         ELSE LET l == LicenseOf(response.value)
              IN  [self |-> s, outcome |-> l.outcome, value |-> l.value,
                   posts |-> 1, sent |-> req, decoded |-> response.value]

(***************************************************************************)
(* What the environment can answer                                         *)
(***************************************************************************)
Header == <<Tok("a"), Tok("}"), Tok("}")>>
Sig == <<Tok("g"), Tok("}")>>

RECURSIVE Flatten(_)
Flatten(ss) == IF ss = <<>> THEN <<>> ELSE Head(ss) \o Flatten(Tail(ss))

\* a chunked message: the header and each payload object with its signature
Chunked(ps) == Header \o Flatten([i \in 1..Len(ps) |-> <<ps[i]>> \o Sig])

\* the service envelope around an answer, as the assembled buffer holds it
Envelope(d) == <<Tok("["), d, Tok("]")>>

OneChunk(d, k) == Chunked(<<PayloadTok(k, "NONE", B64(Envelope(d)))>>)

\* two chunks, the first one gzip-compressed
TwoChunks(d, k) ==
    Chunked(<<PayloadTok(k, "GZIP", B64(Gzip(<<Tok("[")>>))),
              PayloadTok(k, "NONE", B64(<<d, Tok("]")>>))>>)

\* the same two chunks in the opposite order
TwoChunksSwapped(d, k) ==
    Chunked(<<PayloadTok(k, "NONE", B64(<<d, Tok("]")>>)),
              PayloadTok(k, "GZIP", B64(Gzip(<<Tok("[")>>)))>>)

\* the answers the service gives to a manifest or license request
AppDocs == {d \in Docs : d.t # "hs"}

\* answers sent in more than one chunk, and answers sent as plain JSON
SplitDocs ==
    {[t |-> "man", pc |-> 1, drm |-> NIds],
     [t |-> "lic", success |-> FALSE, data |-> 1]}

PlainDocs ==
    SplitDocs \cup {[t |-> "err"], [t |-> "obj"], [t |-> "num"],
                    [t |-> "lic", success |-> TRUE, data |-> 1]}

\* what the service can answer to a request built under key k: the answer
\* under that key in one or two chunks, an answer under another key, plain
\* JSON, and text that is neither
Bodies(k) ==
    {<<d>> : d \in PlainDocs}
    \cup {OneChunk(d, k) : d \in AppDocs}
    \cup {OneChunk(d, j) : d \in SplitDocs, j \in Keys \ {k}}
    \cup {TwoChunks(d, k) : d \in SplitDocs}
    \cup {TwoChunksSwapped(d, k) : d \in SplitDocs}
    \cup {<<Tok("a")>>,
          <<PayloadTok(k, "NONE", B64(Envelope([t |-> "obj"])))>> \o Sig,
          Header \o <<Tok("}"), Tok("}")>> \o
              <<PayloadTok(k, "NONE", B64(Envelope([t |-> "obj"])))>> \o Sig}

Failed == [ok |-> FALSE, body |-> <<>>]

Responses(k) == {[ok |-> TRUE, body |-> b] : b \in Bodies(k)} \cup {Failed}

HandshakeResponses ==
    {[ok |-> TRUE, body |-> <<d>>] : d \in Docs}
    \cup {[ok |-> TRUE, body |-> OneChunk([t |-> "hs", key |-> 1], 1)], Failed}

ViewableIds == {1}
Challenges == {1}
Sids == {1}

(***************************************************************************)
(* The handler in use: one caller at a time                                *)
(***************************************************************************)
NoGood == [any |-> FALSE, pc |-> EmptyStr, drm |-> EmptyStr]

NoLast ==
    [op |-> "none", outcome |-> "none", value |-> NoValue, posts |-> 0, hs |-> 0,
     sent |-> NoReq, decoded |-> NoValue, crypto0 |-> NoKey, loaded |-> FALSE,
     plain |-> FALSE, kind |-> "none"]

\* what came back from the POST of a call: "failed" for a failed request,
\* "errordata" / "json" for a body that is JSON with / without errordata,
\* "text" for any other body, "none" when the call issued no POST
ResponseKind(posts, resp) ==
    IF posts = 0 THEN "none"
    ELSE IF ~resp.ok THEN "failed"
    ELSE IF ~IsJson(resp.body) THEN "text"
    ELSE IF json(resp.body).t = "err" THEN "errordata"
    ELSE "json"

\* callers that run load_manifest, callers that run get_license and runs of
\* the ESN_CHANGED slot, all on the one handler
ManifestThreads == {"M1", "M2"}
LicenseThreads == {"L1"}
HandshakeThreads == {"H1", "H2"}
AppThreads == ManifestThreads \cup LicenseThreads
Threads == AppThreads \cup HandshakeThreads

\* a thread that has not started: pc is its position, outcome what its call
\* ended with; reqkey is the key its request was encrypted under, deckey the
\* key its response was decrypted with; rpc and rdrm are the ids a license
\* request was built with; key holds the header data of a handshake
\* response, seq the rank of the handshake request among those sent, fin the
\* rank of its parse_key_response among those completed
IdleThread ==
    [pc |-> "idle", outcome |-> "none", reqkey |-> NoKey, deckey |-> NoKey,
     rpc |-> EmptyStr, rdrm |-> EmptyStr, key |-> NoKey, seq |-> 0, fin |-> 0]

IdleThreads == [t \in Threads |-> IdleThread]

IdleRuns ==
    /\ message = <<>> /\ parsed = NoParse
    /\ chunks = <<>> /\ crypto = NoKey /\ decrypted = NoDecrypt
    /\ threads = IdleThreads

Init ==
    /\ self = NewHandler(NoKey)
    /\ esn \in Esns \cup {NoEsn}
    /\ phase = "new"
    /\ last = NoLast
    /\ good = NoGood
    /\ fresh = TRUE
    /\ IdleRuns

\* handler = MSLHandler()
Construct ==
    /\ phase = "new"
    /\ \E msl_data \in MslData, resp \in HandshakeResponses :
         \E r \in {__init__(msl_data, esn, resp)} :
         /\ self' = r.self
         /\ phase' = IF r.outcome = "return" THEN "ready" ELSE "failed"
         /\ last' = [NoLast EXCEPT !.op = "__init__", !.outcome = r.outcome,
                                   !.posts = r.posts, !.hs = r.hs,
                                   !.decoded = r.decoded,
                                   !.kind = ResponseKind(r.posts, resp),
                                   !.loaded = LoadsMslData(msl_data)]
    /\ UNCHANGED <<esn, good, fresh, parserVars, decryptorVars, threads>>

\* the ESN changes and the ESN_CHANGED signal runs the registered slot
EsnChanged ==
    /\ phase = "ready"
    /\ \E e \in (Esns \cup {NoEsn}) \ {esn}, resp \in HandshakeResponses :
         \E r \in {perform_key_handshake(self, e, resp)} :
         /\ esn' = e
         /\ self' = r.self
         /\ fresh' = (e # NoEsn /\ r.outcome = "return")
         /\ last' = [NoLast EXCEPT !.op = "ESN_CHANGED", !.outcome = r.outcome,
                                   !.posts = r.posts, !.hs = 1,
                                   !.decoded = r.decoded,
                                   !.kind = ResponseKind(r.posts, resp),
                                   !.crypto0 = self.crypto]
    /\ UNCHANGED <<phase, good, parserVars, decryptorVars, threads>>

LoadManifest ==
    /\ phase = "ready"
    /\ \E viewable_id \in ViewableIds, resp \in Responses(self.crypto), converts \in BOOLEAN :
         \E r \in {load_manifest(self, viewable_id, resp, converts)} :
         /\ self' = r.self
         /\ last' = [NoLast EXCEPT !.op = "load_manifest", !.outcome = r.outcome,
                                   !.value = r.value, !.posts = r.posts,
                                   !.sent = r.sent, !.decoded = r.decoded,
                                   !.crypto0 = self.crypto,
                                   !.kind = ResponseKind(r.posts, resp),
                                   !.plain = (r.posts = 1 /\ resp.ok /\ IsJson(resp.body))]
         /\ good' = IF r.outcome = "return"
                    THEN [any |-> TRUE, pc |-> r.decoded.pc, drm |-> r.decoded.drm]
                    ELSE good
    /\ UNCHANGED <<esn, phase, fresh, parserVars, decryptorVars, threads>>

GetLicense ==
    /\ phase = "ready"
    /\ \E challenge \in Challenges, sid \in Sids, resp \in Responses(self.crypto) :
         \E r \in {get_license(self, challenge, sid, resp)} :
         /\ self' = r.self
         /\ last' = [NoLast EXCEPT !.op = "get_license", !.outcome = r.outcome,
                                   !.value = r.value, !.posts = r.posts,
                                   !.sent = r.sent, !.decoded = r.decoded,
                                   !.crypto0 = self.crypto,
                                   !.kind = ResponseKind(r.posts, resp),
                                   !.plain = (r.posts = 1 /\ resp.ok /\ IsJson(resp.body))]
    /\ UNCHANGED <<esn, phase, good, fresh, parserVars, decryptorVars, threads>>

Next == Construct \/ EsnChanged \/ LoadManifest \/ GetLicense

Spec == Init /\ [][Next]_vars

(***************************************************************************)
(* A run of the parser on one message                                      *)
(***************************************************************************)
IdleHandler ==
    /\ self = NewHandler(NoKey) /\ esn = NoEsn /\ phase = "new"
    /\ last = NoLast /\ good = NoGood /\ fresh = TRUE
    /\ threads = IdleThreads

Messages == SeqsUpTo(Chars, MaxLen)

InitParser ==
    /\ IdleHandler
    /\ message \in Messages
    /\ parsed = NoParse
    /\ chunks = <<>> /\ crypto = NoKey /\ decrypted = NoDecrypt

ParseChunks ==
    /\ parsed.outcome = "none"
    /\ parsed' = _parse_chunks(message)
    /\ UNCHANGED <<handlerVars, message, decryptorVars, threads>>

NextParser == ParseChunks

SpecParser == InitParser /\ [][NextParser]_vars

(***************************************************************************)
(* A run of the decryptor on one list of payload strings                   *)
(***************************************************************************)
\* the data segments a service answer can be cut into: the contiguous pieces
\* of its envelope, the empty piece included
DataSegs ==
    LET text == Envelope([t |-> "lic", success |-> TRUE, data |-> 1])
    IN  {SubSeq(text, i, j) : i \in 1..(Len(text) + 1), j \in 0..Len(text)}

\* the segment used where a chunk's compressionalgo and its data disagree
WholeSeg == Envelope([t |-> "lic", success |-> TRUE, data |-> 1])

\* the payload string the service makes of data segment d under key k,
\* gzip-compressed before encoding when gz
Chunk(k, d, gz) ==
    <<PayloadTok(k, IF gz THEN "GZIP" ELSE "NONE", B64(IF gz THEN Gzip(d) ELSE d)),
      Tok("}")>>

\* payload strings as the parser hands them on, closing brace restored
ChunkStrings ==
    {Chunk(k, d, gz) : k \in Keys, d \in DataSegs, gz \in BOOLEAN}
    \cup {<<PayloadTok(k, "GZIP", B64(WholeSeg)), Tok("}")>> : k \in Keys}
    \cup {<<PayloadTok(k, "NONE", B64(Gzip(WholeSeg))), Tok("}")>> : k \in Keys}
    \cup {<<Tok("a"), Tok("}")>>}

InitDecryptor ==
    /\ IdleHandler
    /\ message = <<>> /\ parsed = NoParse
    /\ chunks \in SeqsUpTo(ChunkStrings, MaxChunks)
    /\ crypto \in Keys \cup {NoKey}
    /\ decrypted = NoDecrypt

DecryptChunks ==
    /\ decrypted.outcome = "none"
    /\ decrypted' = _decrypt_chunks(chunks, crypto)
    /\ UNCHANGED <<handlerVars, parserVars, chunks, crypto, threads>>

NextDecryptor == DecryptChunks

SpecDecryptor == InitDecryptor /\ [][NextDecryptor]_vars

(***************************************************************************)
(* Concurrent callers of one ready handler.  The handler takes no lock, so *)
(* the steps of the calls interleave at every read and write of a shared   *)
(* attribute and around every blocking POST.                               *)
(***************************************************************************)
\* the manifest the service answers the load_manifest of thread m with: its
\* first viewable carries the same number as playbackContextId and as
\* drmContextId, a different one for each caller
ManifestOf(m) == IF m = "M1" THEN 1 ELSE 2

Done(t, outcome) == [threads EXCEPT ![t].pc = "done", ![t].outcome = outcome]

InitConcurrent ==
    /\ \E k \in Keys : self = NewHandler(k)
    /\ esn \in Esns
    /\ phase = "ready"
    /\ last = NoLast /\ good = NoGood /\ fresh = TRUE
    /\ IdleRuns

\* get_license evaluates self.last_playback_context for the request
ReadPlaybackContext(l) ==
    /\ threads[l].pc = "idle"
    /\ threads' = [threads EXCEPT ![l].pc = "read_drm",
                                  ![l].rpc = self.last_playback_context]
    /\ UNCHANGED <<handlerVars, parserVars, decryptorVars>>

\* get_license evaluates [self.last_drm_context] for the request
ReadDrmContext(l) ==
    /\ threads[l].pc = "read_drm"
    /\ threads' = [threads EXCEPT ![l].pc = "build",
                                  ![l].rdrm = self.last_drm_context]
    /\ UNCHANGED <<handlerVars, parserVars, decryptorVars>>

\* request_builder.msl_request(...) encrypts the request under the keys held
Build(t) ==
    /\ threads[t].pc = IF t \in ManifestThreads THEN "idle" ELSE "build"
    /\ threads' = IF msl_request(self) # "return"
                  THEN Done(t, msl_request(self))
                  ELSE [threads EXCEPT ![t].pc = "post", ![t].reqkey = self.crypto]
    /\ UNCHANGED <<handlerVars, parserVars, decryptorVars>>

\* self._post(...) blocks until the response is there or the request failed
Post(t) ==
    /\ threads[t].pc = "post"
    /\ \E resp \in {[ok |-> TRUE], [ok |-> FALSE]} :
          threads' = IF _post(resp) # "return"
                     THEN Done(t, _post(resp))
                     ELSE [threads EXCEPT ![t].pc = "decrypt"]
    /\ UNCHANGED <<handlerVars, parserVars, decryptorVars>>

\* _process_chunked_response decrypts the chunks, which the service made
\* under the keys of the request, with the keys the crypto object holds now
Decrypt(t) ==
    /\ threads[t].pc = "decrypt"
    /\ threads' =
          IF ~CanDecrypt(self.crypto, threads[t].reqkey)
          THEN [Done(t, "DecryptionError") EXCEPT ![t].deckey = self.crypto]
          ELSE IF t \in ManifestThreads
          THEN [threads EXCEPT ![t].pc = "set_playback", ![t].deckey = self.crypto]
          ELSE [Done(t, "return") EXCEPT ![t].deckey = self.crypto]
    /\ UNCHANGED <<handlerVars, parserVars, decryptorVars>>

\* __tranform_to_dash: self.last_playback_context = ...['playbackContextId']
SetPlaybackContext(m) ==
    /\ threads[m].pc = "set_playback"
    /\ self' = [self EXCEPT !.last_playback_context = ManifestOf(m)]
    /\ threads' = [threads EXCEPT ![m].pc = "set_drm"]
    /\ UNCHANGED <<esn, phase, last, good, fresh, parserVars, decryptorVars>>

\* __tranform_to_dash: self.last_drm_context = ...['drmContextId'], then
\* convert_to_dash and return
SetDrmContext(m) ==
    /\ threads[m].pc = "set_drm"
    /\ self' = [self EXCEPT !.last_drm_context = ManifestOf(m)]
    /\ threads' = Done(m, "return")
    /\ UNCHANGED <<esn, phase, last, good, fresh, parserVars, decryptorVars>>

\* the ESN changes and the ESN_CHANGED signal starts the registered slot:
\* perform_key_handshake returns when no ESN is there, else sends its request
HandshakeSend(h) ==
    /\ threads[h].pc = "idle"
    /\ \E e \in (Esns \cup {NoEsn}) \ {esn} :
          /\ esn' = e
          /\ threads' =
                IF e = NoEsn THEN Done(h, "return")
                ELSE [threads EXCEPT
                        ![h].pc = "await",
                        ![h].seq = 1 + Cardinality({x \in HandshakeThreads :
                                                       threads[x].seq > 0})]
    /\ UNCHANGED <<self, phase, last, good, fresh, parserVars, decryptorVars>>

\* the handshake POST comes back and _process_json_response decodes it
HandshakeReceive(h) ==
    /\ threads[h].pc = "await"
    /\ \E resp \in {[ok |-> TRUE, body |-> <<[t |-> "hs", key |-> k]>>] : k \in Keys}
                    \cup {Failed} :
          threads' =
              IF _post(resp) # "return" THEN Done(h, _post(resp))
              ELSE LET response == _process_json_response(resp.body)
                   IN  [threads EXCEPT ![h].pc = "parse", ![h].key = response.value.key]
    /\ UNCHANGED <<handlerVars, parserVars, decryptorVars>>

\* self.request_builder.crypto.parse_key_response(headerdata)
HandshakeParse(h) ==
    /\ threads[h].pc = "parse"
    /\ \E k \in {parse_key_response(self, [t |-> "hs", key |-> threads[h].key])} :
          /\ self' = k.self
          /\ threads' =
                [Done(h, k.outcome) EXCEPT
                    ![h].fin = 1 + Cardinality({x \in HandshakeThreads :
                                                   threads[x].fin > 0})]
    /\ UNCHANGED <<esn, phase, last, good, fresh, parserVars, decryptorVars>>

NextConcurrent ==
    \/ \E l \in LicenseThreads : ReadPlaybackContext(l)
    \/ \E l \in LicenseThreads : ReadDrmContext(l)
    \/ \E t \in AppThreads : Build(t)
    \/ \E t \in AppThreads : Post(t)
    \/ \E t \in AppThreads : Decrypt(t)
    \/ \E m \in ManifestThreads : SetPlaybackContext(m)
    \/ \E m \in ManifestThreads : SetDrmContext(m)
    \/ \E h \in HandshakeThreads : HandshakeSend(h)
    \/ \E h \in HandshakeThreads : HandshakeReceive(h)
    \/ \E h \in HandshakeThreads : HandshakeParse(h)

SpecConcurrent == InitConcurrent /\ [][NextConcurrent]_vars

(***************************************************************************)
(* Properties                                                              *)
(***************************************************************************)
AppOps == {"load_manifest", "get_license"}

C2_LicenseSendsLastGoodIds ==
    (last.op = "get_license" /\ last.posts = 1 /\ good.any)
        => (last.sent.pc = good.pc /\ last.sent.drm = good.drm)

C4_ConstructionNeverWithoutKeys ==
    (last.op = "__init__" /\ ~last.loaded /\ last.outcome = "return")
        => self.crypto # NoKey

\* C4 as amended: when construction has to handshake and an ESN is available,
\* a transport failure, a protocol error or a key-exchange error makes the
\* construction fail with that error, and a construction that returns holds
\* session keys; when no ESN is available no POST is issued and construction
\* completes normally without session keys.
C4_ConstructionFailsUnlessEsnMissing ==
    (last.op = "__init__" /\ ~last.loaded) =>
        IF esn = NoEsn
        THEN /\ last.outcome = "return" /\ phase = "ready"
             /\ last.posts = 0 /\ self.crypto = NoKey
        ELSE /\ last.posts = 1
             /\ last.outcome = "return" => (phase = "ready" /\ self.crypto # NoKey)
             /\ last.outcome # "return" => (phase = "failed" /\ self.crypto = NoKey)

C4_Witness ==
    /\ last.op = "__init__" /\ ~last.loaded /\ esn # NoEsn
    /\ last.outcome = "KeyExchangeError" /\ phase = "failed"

C6_DecryptFailureInvalidatesKeys ==
    (last.op \in AppOps /\ last.outcome = "DecryptionError")
        => self.crypto # last.crypto0

\* C6 as amended: a response that fails to decrypt makes the call raise the
\* decryption error after its single POST; no handshake is run and the
\* handler keeps the session keys it held.
C6_DecryptFailureKeepsKeys ==
    (last.op \in AppOps /\ last.outcome = "DecryptionError")
        => /\ self.crypto = last.crypto0 /\ self.crypto # NoKey
           /\ last.hs = 0 /\ last.posts = 1
           /\ last.value.t = "none"

C6_Witness ==
    /\ last.op \in AppOps /\ last.outcome = "DecryptionError"
    /\ self.crypto = last.crypto0 /\ last.sent.key = self.crypto

\* C10: when the body of a manifest or license response is parseable as plain
\* JSON, _process_chunked_response raises and hands no decoded value to
\* load_manifest or get_license.
C10_PlainJsonNeverDecoded ==
    (last.op \in AppOps /\ last.plain) => last.decoded.t = "none"

\* the errors the protocol layer defines for a response it cannot accept
ProtocolErrors == {"MalformedResponseError", "MSLError"}

\* C7: a message without the '}}' delimiter makes the parser fail with
\* MalformedResponseError, a defined protocol error, and yield no header and
\* no payloads.
C7_MissingDelimiterIsProtocolError ==
    (parsed.outcome # "none" /\ FindDelim(message, 1) = 0)
        => (parsed.outcome \in ProtocolErrors
            /\ parsed.header = <<>> /\ parsed.payloads = <<>>)

\* the text after the first '}}' of m
AfterFirstDelim(m) == SubSeq(m, FindDelim(m, 1) + 2, Len(m))

\* rest is a concatenation of signature-terminated payload objects
IsPayloadStream(rest) ==
    LET pieces == ReSplit(rest) IN pieces[Len(pieces)] = <<>>

\* C8: the header is the message up to and including its first '}}', and a
\* stream of N signature-terminated payload objects after it yields N payload
\* strings in order, each with its closing brace restored, also when '}}'
\* occurs again later in the message.
C8_PayloadsAreAllAfterFirstDelimiter ==
    (parsed.outcome # "none" /\ FindDelim(message, 1) # 0
     /\ IsPayloadStream(AfterFirstDelim(message)))
        => LET pieces == ReSplit(AfterFirstDelim(message)) IN
           /\ parsed.outcome = "return"
           /\ parsed.header = SubSeq(message, 1, FindDelim(message, 1) + 1)
           /\ Len(parsed.payloads) = Len(pieces) - 1
           /\ \A i \in 1..(Len(pieces) - 1) :
                  parsed.payloads[i] = Append(pieces[i], Tok("}"))

\* the decryptor run was given a valid response: it decoded it to an answer
ValidChunks == decrypted.outcome = "return"

\* the decryptor run was given chunks that all decode and decrypt, whether or
\* not the buffer assembled from them holds an answer
AllDecode ==
    /\ decrypted.outcome # "none"
    /\ \A i \in 1..Len(chunks) : DecodeChunk(chunks[i], crypto).outcome = "ok"

\* the decrypted and decoded data of chunk i
Plain(i) == DecodeChunk(chunks[i], crypto).data

RECURSIVE Offset(_)
\* the length of the data in front of chunk i
Offset(i) == IF i = 1 THEN 0 ELSE Offset(i - 1) + Len(Plain(i - 1))

\* the buffer holds the data of every chunk at the chunk's position
InChunkOrder(buffer) ==
    /\ Len(buffer) = Offset(Len(chunks) + 1)
    /\ \A i \in 1..Len(chunks) :
          SubSeq(buffer, Offset(i) + 1, Offset(i) + Len(Plain(i))) = Plain(i)

Swap(cs, i, j) == [cs EXCEPT ![i] = cs[j], ![j] = cs[i]]

\* C9 as stated: for a valid response the assembled buffer is the
\* concatenation of the chunks' data in chunk order, and exchanging two chunks
\* whose data differ changes the assembled buffer.
C9_AnySwapChangesBuffer ==
    ValidChunks
        => /\ InChunkOrder(decrypted.buffer)
           /\ \A i, j \in 1..Len(chunks) :
                  Plain(i) # Plain(j)
                      => _decrypt_chunks(Swap(chunks, i, j), crypto).buffer
                             # decrypted.buffer

\* C9 as amended: whenever every chunk decodes and decrypts, the assembled
\* buffer is the concatenation of the chunks' data in chunk order, and
\* exchanging two chunks whose data differ and have the same length changes
\* the assembled buffer.
C9_BufferInChunkOrder ==
    AllDecode
        => /\ InChunkOrder(decrypted.buffer)
           /\ \A i, j \in 1..Len(chunks) :
                  (Plain(i) # Plain(j) /\ Len(Plain(i)) = Len(Plain(j)))
                      => _decrypt_chunks(Swap(chunks, i, j), crypto).buffer
                             # decrypted.buffer

C9_Witness ==
    /\ AllDecode /\ Len(chunks) = 2
    /\ Plain(1) # Plain(2) /\ Len(Plain(1)) = Len(Plain(2)) /\ Plain(1) # <<>>
    /\ decrypted.buffer = Plain(1) \o Plain(2)
    /\ _decrypt_chunks(Swap(chunks, 1, 2), crypto).buffer = Plain(2) \o Plain(1)

FromService(i) ==
    \E d \in DataSegs, gz \in BOOLEAN : chunks[i] = Chunk(crypto, d, gz)

\* the uncompressed data segment chunk i was made of
Segment(i) ==
    CHOOSE d \in DataSegs : \E gz \in BOOLEAN : chunks[i] = Chunk(crypto, d, gz)

RECURSIVE Segments(_)
\* the segments of chunks 1..n, concatenated
Segments(n) == IF n = 0 THEN <<>> ELSE Segments(n - 1) \o Segment(n)

\* C15: compression is decided chunk by chunk: a GZIP chunk contributes its
\* inflated data and any other chunk its base64-decoded data unchanged, so a
\* response whose chunks were made of data segments, compressed or not chunk
\* by chunk, decodes to the answer held by the concatenation of the segments.
C15_DecompressionPerChunk ==
    decrypted.outcome # "none"
        => /\ \A i \in 1..Len(chunks) :
                  (IsChunkJson(chunks[i]) /\ CanDecrypt(crypto, chunks[i][1].key)
                       /\ chunks[i][1].algo # "GZIP")
                      => Plain(i) = standard_b64decode(chunks[i][1].data)
           /\ (\A i \in 1..Len(chunks) : FromService(i))
                  => /\ decrypted.buffer = Segments(Len(chunks))
                     /\ IsEnvelope(Segments(Len(chunks)))
                            => /\ decrypted.outcome = "return"
                               /\ decrypted.value = Segments(Len(chunks))[2]

C15_Witness ==
    /\ Len(chunks) = 2 /\ FromService(1) /\ FromService(2)
    /\ chunks[1][1].algo = "GZIP" /\ chunks[2][1].algo = "NONE"
    /\ Segment(1) # <<>> /\ Segment(2) # <<>>
    /\ decrypted.outcome = "return" /\ decrypted.value.t = "lic"
    /\ decrypted.buffer = Segment(1) \o Segment(2)

\* C16: the playback context id and the DRM context id change only in a
\* load_manifest call that returns; a load_manifest call that raises leaves
\* both at their previous values.
C16_ContextChangesOnlyOnSuccess ==
    [][(\/ self'.last_playback_context # self.last_playback_context
        \/ self'.last_drm_context # self.last_drm_context)
           => (last'.op = "load_manifest" /\ last'.outcome = "return")]_vars

\* C17: get_license, returning or raising, leaves the playback context ids,
\* the session keys and the Ready state as they were, so a get_license call
\* that directly follows another sends the same two ids.
C17_LicenseIsReadOnly ==
    [][last'.op = "get_license"
          => /\ self' = self
             /\ phase = "ready" /\ phase' = "ready"
             /\ (last.op = "get_license" /\ last.posts = 1 /\ last'.posts = 1)
                    => /\ last'.sent.pc = last.sent.pc
                       /\ last'.sent.drm = last.sent.drm]_vars

C17_Witness ==
    /\ last.op = "get_license" /\ last.outcome = "return" /\ good.any
    /\ self.last_playback_context = last.sent.pc /\ last.sent.pc # EmptyStr
    /\ self.last_drm_context = last.sent.drm /\ last.sent.drm # EmptyStr
    /\ self.crypto = last.sent.key

\* C18: a get_license call made before any load_manifest call has returned
\* is not turned down by the handler: with session keys held it POSTs a
\* request, and the request carries the empty string as playbackContextId
\* and as the one element of drmContextIds.
C18_LicenseBeforeManifestSendsEmptyIds ==
    (last.op = "get_license" /\ ~good.any)
        => /\ last.crypto0 # NoKey => last.posts = 1
           /\ last.posts = 1
                  => (last.sent.pc = EmptyStr /\ last.sent.drm = EmptyStr)

\* C19: perform_key_handshake run while no ESN is available, from construction
\* or from the ESN_CHANGED slot, issues no POST, does not call
\* parse_key_response, leaves the session keys as they were and returns
\* normally.
C19_NoEsnHandshakeDoesNothing ==
    [][(last'.hs = 1 /\ esn' = NoEsn)
          => /\ last'.posts = 0 /\ last'.kind = "none"
             /\ last'.decoded = NoValue
             /\ last'.outcome = "return"
             /\ self' = self]_vars

C19_Witness ==
    /\ last.op = "ESN_CHANGED" /\ esn = NoEsn
    /\ last.crypto0 # NoKey /\ self.crypto = last.crypto0
    /\ last.posts = 0 /\ last.outcome = "return"

\* C20: a handshake replaces the session keys only after its POST came back
\* with a JSON body without errordata, and then by the keys of that body; a
\* failed POST raises the transport error, a body that is not JSON or that
\* carries errordata raises MSLError, and in all three cases the session
\* keys held before are kept.
C20_KeysReplacedOnlyAfterGoodResponse ==
    [][last'.hs = 1
          => /\ self'.crypto # self.crypto
                    => /\ last'.kind = "json" /\ last'.outcome = "return"
                       /\ last'.decoded.t = "hs" /\ self'.crypto = last'.decoded.key
             /\ last'.kind = "failed"
                    => (last'.outcome = "HTTPError" /\ self' = self)
             /\ last'.kind \in {"text", "errordata"}
                    => (last'.outcome = "MSLError" /\ self' = self)]_vars

C20_Witness ==
    /\ last.op = "ESN_CHANGED" /\ last.kind = "errordata"
    /\ last.outcome = "MSLError"
    /\ last.crypto0 # NoKey /\ self.crypto = last.crypto0

\* C11: no get_license request is built with a playbackContextId of one
\* manifest response and a drmContextId of another manifest response or of
\* the initial empty value: the two ids of a built request come from the
\* same manifest, or both are the initial empty string.
C11_LicenseIdsFromOneManifest ==
    \A l \in LicenseThreads :
        threads[l].reqkey # NoKey => threads[l].rpc = threads[l].rdrm

\* C12: every response of load_manifest or get_license is decrypted with the
\* session keys its request was built under.
C12_DecryptedUnderRequestKeys ==
    \A t \in AppThreads :
        threads[t].deckey # NoKey => threads[t].deckey = threads[t].reqkey

\* C13: handshakes do not overtake each other: of two handshakes whose
\* parse_key_response completed, the one whose request was sent first
\* completed first.
C13_HandshakesCompleteInSendOrder ==
    \A h1, h2 \in HandshakeThreads :
        (threads[h1].fin > 0 /\ threads[h2].fin > 0 /\ threads[h1].seq < threads[h2].seq)
            => threads[h1].fin < threads[h2].fin

====
